---- MODULE Spec2Model ----
(***************************************************************************)
(* Model of the Notion MCP installer (scripts/install.cjs) and of the      *)
(* verifier (the script embedded in INSTALL.md).                            *)
(*                                                                         *)
(* Both tools are single-threaded batch scripts.  The state is the part of *)
(* the machine they read and write (the Claude Desktop configuration file, *)
(* its backups, the build artifacts, the Claude Code CLI registry) plus    *)
(* the position and the fields of the running tool.                        *)
(***************************************************************************)
EXTENDS Integers, Sequences, FiniteSets, TLC

(***************************************************************************)
(* Bounds                                                                  *)
(***************************************************************************)
\* number of tool runs (install, verify, or a direct call of the exported
\* class's configureClaudeDesktop) in one behaviour
MaxRuns == 2

(***************************************************************************)
(* JavaScript values.  A value is a tagged record; every tag has its own   *)
(* field names.  Numbers are kept as their literal text.                   *)
(***************************************************************************)
Undef == [t |-> "undefined"]
Null == [t |-> "null"]
Bool(b) == [t |-> "bool", b |-> b]
Num(n) == [t |-> "num", n |-> n]
Str(s) == [t |-> "str", s |-> s]
NoProps == [k \in {} |-> Undef]
\* a: the indexed elements, x: the non-index ("expando") properties
Arr(a) == [t |-> "arr", a |-> a, x |-> NoProps]
Obj(o) == [t |-> "obj", o |-> o]
EmptyObj == Obj(NoProps)

\* f with key k bound to v (k added when absent)
Put(f, k, v) == [j \in (DOMAIN f) \cup {k} |-> IF j = k THEN v ELSE f[j]]

\* ToBoolean: what `!x`, `x || y` and `if (x)` test
Truthy(v) ==
    CASE v.t = "undefined" -> FALSE
      [] v.t = "null" -> FALSE
      [] v.t = "bool" -> v.b
      [] v.t = "num" -> v.n \notin {"0", "NaN"}
      [] v.t = "str" -> v.s # ""
      [] OTHER -> TRUE

\* reading v[k] throws a TypeError exactly on null and undefined
GetThrows(v) == v.t \in {"null", "undefined"}

\* v[k] for a name k that is no built-in of the prototype
GetProp(v, k) ==
    CASE v.t = "obj" -> IF k \in DOMAIN v.o THEN v.o[k] ELSE Undef
      [] v.t = "arr" -> IF k \in DOMAIN v.x THEN v.x[k] ELSE Undef
      [] OTHER -> Undef

\* class bodies are strict mode code: v[k] = w throws a TypeError on every
\* primitive, and on null and undefined
SetThrows(v) == v.t \notin {"obj", "arr"}

\* v after v[k] = w
SetProp(v, k, w) ==
    IF v.t = "obj" THEN [v EXCEPT !.o = Put(v.o, k, w)]
    ELSE [v EXCEPT !.x = Put(v.x, k, w)]

(***************************************************************************)
(* Files.  The content of a file is its text: either text that is no JSON, *)
(* or a JSON document in some layout.  JSON.parse maps a text to a value   *)
(* and JSON.stringify(value, null, 2) maps a value to a text; neither is   *)
(* the identity: a number literal beyond the double range parses to        *)
(* Infinity, Infinity is written as null, the non-index properties of an   *)
(* array are not written, and the layout is always the two-space one.      *)
(***************************************************************************)
NoFile == [k |-> "absent"]
Garbage == [k |-> "garbage"]
JsonText(fmt, doc) == [k |-> "json", fmt |-> fmt, doc |-> doc]

RECURSIVE ParseValue(_)
ParseValue(d) ==
    CASE d.t = "num" -> IF d.n = "1e999" THEN Num("Infinity") ELSE d
      [] d.t = "arr" -> Arr([i \in DOMAIN d.a |-> ParseValue(d.a[i])])
      [] d.t = "obj" -> Obj([k \in DOMAIN d.o |-> ParseValue(d.o[k])])
      [] OTHER -> d

\* JSON.parse(text): ok = FALSE when it throws a SyntaxError
JsonParse(text) ==
    IF text.k = "json" THEN [ok |-> TRUE, val |-> ParseValue(text.doc)]
    ELSE [ok |-> FALSE, val |-> Undef]

RECURSIVE SerializeValue(_)
SerializeValue(v) ==
    CASE v.t = "num" -> IF v.n \in {"Infinity", "NaN"} THEN Null ELSE v
      [] v.t = "arr" -> Arr([i \in DOMAIN v.a |-> SerializeValue(v.a[i])])
      [] v.t = "obj" -> Obj([k \in DOMAIN v.o |-> SerializeValue(v.o[k])])
      [] OTHER -> v

\* JSON.stringify(v, null, 2)
JsonStringify(v) == JsonText("indent2", SerializeValue(v))

(***************************************************************************)
(* Text of a subprocess's standard output: a sequence of characters.      *)
(***************************************************************************)
Digits == <<"0", "1", "2", "3", "4", "5", "6", "7", "8", "9">>
IsDigit(c) == \E i \in 1..10 : Digits[i] = c
DigitVal(c) == (CHOOSE i \in 1..10 : Digits[i] = c) - 1
IsSpace(c) == c \in {" ", "\n", "\t", "\r"}

\* String.prototype.trim
RECURSIVE TrimLeft(_)
TrimLeft(s) == IF s # <<>> /\ IsSpace(Head(s)) THEN TrimLeft(Tail(s)) ELSE s
RECURSIVE TrimRight(_)
TrimRight(s) ==
    IF s # <<>> /\ IsSpace(s[Len(s)]) THEN TrimRight(SubSeq(s, 1, Len(s) - 1)) ELSE s
Trim(s) == TrimRight(TrimLeft(s))

\* s.replace(c, ''): the first occurrence of the character c removed
RemoveFirst(s, c) ==
    IF \E i \in 1..Len(s) : s[i] = c
    THEN LET i == CHOOSE j \in 1..Len(s) : s[j] = c /\ \A h \in 1..(j - 1) : s[h] # c
         IN  SubSeq(s, 1, i - 1) \o SubSeq(s, i + 1, Len(s))
    ELSE s

\* s.split(c)[0]: the text before the first c (all of s when it holds no c)
SplitHead(s, c) ==
    IF \E i \in 1..Len(s) : s[i] = c
    THEN LET i == CHOOSE j \in 1..Len(s) : s[j] = c /\ \A h \in 1..(j - 1) : s[h] # c
         IN  SubSeq(s, 1, i - 1)
    ELSE s

\* the value of the longest prefix of s made of decimal digits, read after acc
RECURSIVE DigitsValue(_, _)
DigitsValue(s, acc) ==
    IF s # <<>> /\ IsDigit(Head(s))
    THEN DigitsValue(Tail(s), 10 * acc + DigitVal(Head(s)))
    ELSE acc

\* parseInt(s) on decimal text: leading white space skipped, an optional sign,
\* then digits up to the first other character; NaN when there is no digit
ParseInt(s) ==
    LET t == TrimLeft(s)
        neg == t # <<>> /\ Head(t) = "-"
        u == IF t # <<>> /\ Head(t) \in {"-", "+"} THEN Tail(t) ELSE t
    IN  IF u # <<>> /\ IsDigit(Head(u))
        THEN [nan |-> FALSE, n |-> IF neg THEN 0 - DigitsValue(u, 0) ELSE DigitsValue(u, 0)]
        ELSE [nan |-> TRUE, n |-> 0]

\* versionNum = parseInt(nodeVersion.replace('v', '').split('.')[0])
VersionNum(nodeVersion) == ParseInt(SplitHead(RemoveFirst(nodeVersion, "v"), "."))

\* the minimum major version of Node.js
MinNodeMajor == 16

\* `versionNum < 16`: false when versionNum is NaN
BelowMinimum(nodeVersion) ==
    LET v == VersionNum(nodeVersion) IN ~v.nan /\ v.n < MinNodeMajor

(***************************************************************************)
(* The desktop configuration document                                      *)
(***************************************************************************)
ServerName == "notion-mcp"
\* path.join(this.projectRoot, 'bin', 'cli.mjs')
CliBinaryPath == "/project/bin/cli.mjs"

\* { mcpServers: {} }
FreshConfig == Obj(Put(NoProps, "mcpServers", EmptyObj))

\* this.config.notionToken || ""
TokenOrEmpty(config) ==
    LET tok == GetProp(config, "notionToken")
    IN  IF Truthy(tok) THEN tok ELSE Str("")

\* DesiredEntry with the command of the npm package entry of INSTALL.md
DesiredEntryNpx(config) ==
    Obj(Put(Put(Put(NoProps,
        "command", Str("npx")),
        "args", Arr(<<Str(CliBinaryPath)>>)),
        "env", Obj(Put(NoProps, "NOTION_TOKEN", TokenOrEmpty(config)))))

\* the entry written under mcpServers["notion-mcp"]
DesiredEntry(config) ==
    Obj(Put(Put(Put(NoProps,
        "command", Str("node")),
        "args", Arr(<<Str(CliBinaryPath)>>)),
        "env", Obj(Put(NoProps, "NOTION_TOKEN", TokenOrEmpty(config)))))

\* LoadExisting with the copy made before the file is parsed
LoadExistingBackupFirst(text, copyOk) ==
    LET parsed == JsonParse(text)
        v == parsed.val
        fresh == [config |-> FreshConfig, clock |-> TRUE, backup |-> copyOk]
    IN  IF ~copyOk \/ ~parsed.ok \/ GetThrows(v) THEN fresh
        ELSE IF ~Truthy(GetProp(v, "mcpServers")) /\ SetThrows(v) THEN fresh
        ELSE [config |-> IF Truthy(GetProp(v, "mcpServers")) THEN v
                         ELSE SetProp(v, "mcpServers", EmptyObj),
              clock |-> TRUE, backup |-> TRUE]

\* The try block that loads an existing file: parse it, give it an
\* mcpServers member when it has none, read the clock and copy the file to the
\* backup path.  Any exception (the SyntaxError of JSON.parse, the TypeError of
\* a property access on null or of a property assignment on a primitive, the
\* error of copyFileSync) ends in the catch block, which starts afresh.
\*   clock:  Date.now() was evaluated
\*   backup: copyFileSync returned
LoadExisting(text, copyOk) ==
    LET parsed == JsonParse(text)
        v == parsed.val
        fresh == [config |-> FreshConfig, clock |-> FALSE, backup |-> FALSE]
    IN  IF ~parsed.ok \/ GetThrows(v) THEN fresh
        ELSE IF ~Truthy(GetProp(v, "mcpServers")) /\ SetThrows(v) THEN fresh
        ELSE IF ~copyOk THEN [fresh EXCEPT !.clock = TRUE]
        ELSE [config |-> IF Truthy(GetProp(v, "mcpServers")) THEN v
                         ELSE SetProp(v, "mcpServers", EmptyObj),
              clock |-> TRUE, backup |-> TRUE]

\* claudeConfig.mcpServers["notion-mcp"] = entry throws a TypeError when
\* mcpServers is a primitive
SetEntryThrows(claudeConfig) == SetThrows(GetProp(claudeConfig, "mcpServers"))

\* claudeConfig after claudeConfig.mcpServers["notion-mcp"] = entry
SetEntry(claudeConfig, entry) ==
    SetProp(claudeConfig, "mcpServers",
            SetProp(GetProp(claudeConfig, "mcpServers"), ServerName, entry))

(***************************************************************************)
(* Inputs                                                                  *)
(***************************************************************************)
OtherEntry ==
    Obj(Put(Put(Put(NoProps,
        "command", Str("npx")),
        "args", Arr(<<Str("-y"), Str("@notionhq/notion-mcp-server")>>)),
        "env", EmptyObj))
StaleEntry ==
    Obj(Put(Put(NoProps,
        "command", Str("python")),
        "args", Arr(<<Str("/old/cli.mjs")>>)))
Theme(v) == Put(NoProps, "theme", v)

\* the documents a pre-existing configuration file may hold
InitialDocs ==
    { Null, Num("5"), Arr(<<>>), EmptyObj,
      Obj(Theme(Str("dark"))),
      Obj(Theme(Num("1e999"))),
      Obj(Put(Theme(Str("dark")), "mcpServers", Null)),
      Obj(Put(Theme(Str("dark")), "mcpServers", Obj(Put(NoProps, "other", OtherEntry)))),
      Obj(Put(Theme(Str("dark")), "mcpServers",
              Obj(Put(Put(NoProps, "other", OtherEntry), ServerName, StaleEntry)))),
      Obj(Put(NoProps, "mcpServers", Arr(<<Str("a")>>))),
      Obj(Put(NoProps, "mcpServers", Str("x"))) }

\* the contents of the configuration file before the first run
InitialFiles == {NoFile, Garbage} \cup {JsonText("compact", d) : d \in InitialDocs}

\* the contents of scripts/install-config.json
InstallConfigs ==
    { NoFile, Garbage,
      JsonText("compact", Obj(Put(Put(NoProps, "notionToken", Str("ntn_1")), "verbose", Bool(TRUE)))),
      JsonText("compact", Obj(Put(NoProps, "verbose", Bool(FALSE)))) }

\* what `node --version` prints (ok = FALSE: the command fails)
NodeOutcomes ==
    { [ok |-> FALSE, out |-> <<>>],
      [ok |-> TRUE, out |-> <<"v", "1", "4", ".", "2", "\n">>],
      [ok |-> TRUE, out |-> <<"v", "1", "6", ".", "0", "\n">>],
      [ok |-> TRUE, out |-> <<"\n">>] }
NotRun == [ok |-> FALSE, out |-> <<"?">>]
NotLogged == <<"?">>

(***************************************************************************)
(* State                                                                   *)
(***************************************************************************)
VARIABLES
    configDir,      \* the Claude configuration directory exists
    configFile,     \* content of claude_desktop_config.json, or NoFile
    backups,        \* timestamp -> content of <configPath>.backup.<timestamp>
    nodeModules,    \* <projectRoot>/node_modules exists
    cliBinary,      \* <projectRoot>/bin/cli.mjs exists
    claudeInstalled,\* the claude command is on the PATH
    registry,       \* server names in the Claude Code CLI user registry
    installConfig,  \* content of scripts/install-config.json, or NoFile
    ioFaults,       \* file system operations may fail in this behaviour
    now,            \* the last value Date.now() returned
    elapsed,        \* a subprocess has run since Date.now() was last read
    tool,           \* the running tool: "install", "verify", "call" or "none"
    pc,             \* its position
    exitCode,       \* its exit code, -1 while it has none
    config,         \* this.config
    claudeConfig,   \* the local claudeConfig of configureClaudeDesktop
    errors,         \* this.errors.length of the verifier
    warnings,       \* this.warnings.length of the verifier
    status,         \* the last message logged through success, error or warning
    nodeOut,        \* what `node --version` answered in this run
    loggedVersion,  \* the version text of the "Node.js version: ..." message
    runs,           \* runs started so far
    calls           \* one record per configureClaudeDesktop call

world == <<configDir, configFile, backups, nodeModules, cliBinary, claudeInstalled, registry>>
files == <<configDir, configFile, backups>>
build == <<nodeModules, cliBinary>>
envs == <<installConfig, ioFaults>>
clock == <<now, elapsed>>
verifier == <<errors, warnings>>
node == <<nodeOut, loggedVersion>>
vars == <<configDir, configFile, backups, nodeModules, cliBinary, claudeInstalled,
          registry, installConfig, ioFaults, now, elapsed, tool, pc, exitCode,
          config, claudeConfig, errors, warnings, status, nodeOut, loggedVersion,
          runs, calls>>

Init ==
    /\ configFile \in InitialFiles
    /\ configDir \in (IF configFile = NoFile THEN BOOLEAN ELSE {TRUE})
    /\ backups = NoProps
    /\ nodeModules = FALSE /\ cliBinary = FALSE
    /\ claudeInstalled \in BOOLEAN
    /\ registry = {}
    /\ installConfig \in InstallConfigs
    /\ ioFaults \in BOOLEAN
    /\ now = 0 /\ elapsed = FALSE
    /\ tool = "none" /\ pc = "idle" /\ exitCode = -1
    /\ config = Null /\ claudeConfig = Undef
    /\ errors = 0 /\ warnings = 0
    /\ status = "" /\ nodeOut = NotRun /\ loggedVersion = NotLogged
    /\ runs = 0
    /\ calls = <<>>

\* the outcomes of a file system operation that can fail
IoOutcomes == IF ioFaults THEN BOOLEAN ELSE {TRUE}

\* no tool is running
Idle == pc \in {"idle", "exited", "done", "returned", "thrown"}

\* the fields of a tool object right after its construction
Fresh(t, first) ==
    /\ Idle /\ runs < MaxRuns
    /\ tool' = t /\ pc' = first /\ exitCode' = -1 /\ runs' = runs + 1
    /\ config' = Null /\ claudeConfig' = Undef
    /\ errors' = 0 /\ warnings' = 0
    /\ status' = "" /\ nodeOut' = NotRun /\ loggedVersion' = NotLogged
    /\ UNCHANGED <<world, envs, now, calls>>

\* `node scripts/install.cjs`: a new process
StartInstall == Fresh("install", "loadConfig") /\ elapsed' = TRUE

\* a caller that required the exported class (module.exports) runs loadConfig
\* and then configureClaudeDesktop on an instance, inside its own process: no
\* subprocess has to start, so no millisecond has to pass
StartCall == Fresh("call", "loadConfig") /\ UNCHANGED elapsed

\* this.error(message): log and process.exit(1)
ErrorExit(message) == status' = message /\ pc' = "exited" /\ exitCode' = 1

(***************************************************************************)
(* Installer                                                               *)
(***************************************************************************)
LoadConfig ==
    /\ pc = "loadConfig"
    /\ LET parsed == JsonParse(installConfig)
           after == IF tool = "install" THEN "deps" ELSE "desktop_mkdir"
       IN  IF installConfig = NoFile
           THEN /\ config' = Obj(Put(Put(NoProps, "notionToken", Str("")), "verbose", Bool(FALSE)))
                /\ pc' = after
                /\ UNCHANGED <<status, exitCode>>
           ELSE IF parsed.ok
           THEN /\ config' = parsed.val
                /\ pc' = after
                /\ UNCHANGED <<status, exitCode>>
           ELSE /\ ErrorExit("config_parse_failed")
                /\ UNCHANGED config
    /\ UNCHANGED <<world, envs, clock, tool, claudeConfig, verifier, node, runs, calls>>

\* checkSystemDependencies of the installer: the first failing check ends the
\* run through this.error; "deps_ok" when the method returns
InstallerDeps(nodeRun, npmOk) ==
    IF ~nodeRun.ok THEN "node_missing"
    ELSE IF BelowMinimum(Trim(nodeRun.out)) THEN "node_too_old"
    ELSE IF ~npmOk THEN "npm_missing"
    ELSE "deps_ok"

CheckSystemDependencies ==
    /\ tool = "install" /\ pc = "deps"
    /\ \E nodeRun \in NodeOutcomes, npmOk \in BOOLEAN :
         LET result == InstallerDeps(nodeRun, npmOk)
         IN  /\ nodeOut' = nodeRun
             /\ loggedVersion' = IF nodeRun.ok THEN Trim(nodeRun.out) ELSE NotLogged
             /\ IF result = "deps_ok"
                THEN status' = result /\ pc' = "build" /\ UNCHANGED exitCode
                ELSE ErrorExit(result)
    /\ elapsed' = TRUE
    /\ UNCHANGED <<world, envs, now, tool, config, claudeConfig, verifier, runs, calls>>

\* BuildProject without the test that bin/cli.mjs exists after the build
BuildProjectNoArtifactTest ==
    /\ tool = "install" /\ pc = "build"
    /\ \E installOk \in BOOLEAN, buildRun \in {"fail", "ok", "no_artifact"} :
         /\ nodeModules' = (nodeModules \/ installOk)
         /\ cliBinary' = (cliBinary \/ (installOk /\ buildRun = "ok"))
         /\ IF installOk /\ buildRun # "fail"
            THEN status' = "build_ok" /\ pc' = "test" /\ UNCHANGED exitCode
            ELSE ErrorExit("build_failed")
    /\ elapsed' = TRUE
    /\ UNCHANGED <<files, claudeInstalled, registry, envs, now, tool, config,
                   claudeConfig, verifier, node, runs, calls>>

\* buildProject: npm install, npm run build, then the test that bin/cli.mjs
\* exists; any exception of the try block ends the run through this.error
BuildProject ==
    /\ tool = "install" /\ pc = "build"
    /\ \E installOk \in BOOLEAN, buildRun \in {"fail", "ok", "no_artifact"} :
         /\ nodeModules' = (nodeModules \/ installOk)
         /\ cliBinary' = (cliBinary \/ (installOk /\ buildRun = "ok"))
         /\ IF installOk /\ buildRun # "fail" /\ cliBinary'
            THEN status' = "build_ok" /\ pc' = "test" /\ UNCHANGED exitCode
            ELSE ErrorExit("build_failed")
    /\ elapsed' = TRUE
    /\ UNCHANGED <<files, claudeInstalled, registry, envs, now, tool, config,
                   claudeConfig, verifier, node, runs, calls>>

\* testNotionMcpServer: node bin/cli.mjs --help, 15 s timeout; execSync throws
\* when the command fails and when the timeout expires
TestNotionMcpServer ==
    /\ tool = "install" /\ pc = "test"
    /\ \E answer \in {"usage", "other", "fail", "timeout"} :
         IF answer = "usage"
         THEN status' = "test_ok" /\ pc' = "desktop_mkdir" /\ UNCHANGED exitCode
         ELSE ErrorExit("test_failed")
    /\ elapsed' = TRUE
    /\ UNCHANGED <<world, envs, now, tool, config, claudeConfig, verifier, node, runs, calls>>

\* the record of the configureClaudeDesktop call in progress
SetCall(field, value) == calls' = [calls EXCEPT ![Len(calls)][field] = value]

\* an exception that leaves configureClaudeDesktop: install() catches it and
\* ends the run through this.error; a direct caller receives it
Throw ==
    IF tool = "install"
    THEN ErrorExit("install_failed")
    ELSE status' = "exception" /\ pc' = "thrown" /\ UNCHANGED exitCode

\* configureClaudeDesktop, lines 170-176: create the directory when missing
DesktopMkdir ==
    /\ pc = "desktop_mkdir"
    /\ \E mkdirOk \in IoOutcomes :
         LET entered == [pre |-> configFile, dir |-> configDir, bk |-> backups,
                         ts |-> -1, wrote |-> NoFile, result |-> "running"]
         IN  IF configDir \/ mkdirOk
             THEN /\ configDir' = TRUE
                  /\ calls' = Append(calls, entered)
                  /\ pc' = "desktop_load"
                  /\ UNCHANGED <<status, exitCode>>
             ELSE /\ calls' = Append(calls, [entered EXCEPT !.result = "thrown"])
                  /\ Throw
                  /\ UNCHANGED configDir
    /\ UNCHANGED <<configFile, backups, build, claudeInstalled, registry, envs, clock,
                   tool, config, claudeConfig, verifier, node, runs>>

\* the values Date.now() may return: later than the last one when a subprocess
\* has run in between, otherwise possibly the same millisecond
Timestamps == IF elapsed THEN {now + 1} ELSE {now, now + 1}

\* DesktopLoad with a catch block that ends the run through this.error when the
\* existing file cannot be parsed
DesktopLoadFatal ==
    /\ pc = "desktop_load"
    /\ IF configFile = NoFile
       THEN /\ claudeConfig' = FreshConfig
            /\ pc' = "desktop_set"
            /\ UNCHANGED <<backups, clock, calls, status, exitCode>>
       ELSE IF ~JsonParse(configFile).ok
       THEN /\ ErrorExit("desktop_parse_failed")
            /\ SetCall("result", "thrown")
            /\ UNCHANGED <<claudeConfig, backups, clock>>
       ELSE \E copyOk \in IoOutcomes, t \in Timestamps :
              LET loaded == LoadExisting(configFile, copyOk)
              IN  /\ claudeConfig' = loaded.config
                  /\ backups' = IF loaded.backup THEN Put(backups, t, configFile) ELSE backups
                  /\ IF loaded.clock
                     THEN now' = t /\ elapsed' = FALSE /\ SetCall("ts", t)
                     ELSE UNCHANGED <<clock, calls>>
                  /\ pc' = "desktop_set"
                  /\ UNCHANGED <<status, exitCode>>
    /\ UNCHANGED <<configDir, configFile, build, claudeInstalled, registry, envs, tool,
                   config, verifier, node, runs>>

\* configureClaudeDesktop, lines 181-200: load and back up the existing file
DesktopLoad ==
    /\ pc = "desktop_load"
    /\ IF configFile = NoFile
       THEN /\ claudeConfig' = FreshConfig
            /\ UNCHANGED <<backups, clock, calls>>
       ELSE \E copyOk \in IoOutcomes, t \in Timestamps :
              LET loaded == LoadExisting(configFile, copyOk)
              IN  /\ claudeConfig' = loaded.config
                  /\ backups' = IF loaded.backup THEN Put(backups, t, configFile) ELSE backups
                  /\ IF loaded.clock
                     THEN now' = t /\ elapsed' = FALSE /\ SetCall("ts", t)
                     ELSE UNCHANGED <<clock, calls>>
    /\ pc' = "desktop_set"
    /\ UNCHANGED <<configDir, configFile, build, claudeInstalled, registry, envs, tool,
                   exitCode, config, verifier, status, node, runs>>

\* configureClaudeDesktop, lines 202-209: set the notion-mcp entry
DesktopSet ==
    /\ pc = "desktop_set"
    /\ IF SetEntryThrows(claudeConfig)
       THEN /\ Throw
            /\ SetCall("result", "thrown")
            /\ UNCHANGED claudeConfig
       ELSE /\ claudeConfig' = SetEntry(claudeConfig, DesiredEntry(config))
            /\ pc' = "desktop_write"
            /\ UNCHANGED <<status, exitCode, calls>>
    /\ UNCHANGED <<world, envs, clock, tool, config, verifier, node, runs>>

\* configureClaudeDesktop, lines 211-217: write the file
DesktopWrite ==
    /\ pc = "desktop_write"
    /\ \E writeOk \in IoOutcomes :
         IF writeOk
         THEN /\ configFile' = JsonStringify(claudeConfig)
              /\ status' = "desktop_updated"
              /\ pc' = IF tool = "install" THEN "cli_remove" ELSE "returned"
              /\ calls' = [calls EXCEPT ![Len(calls)].wrote = JsonStringify(claudeConfig),
                                        ![Len(calls)].result = "success"]
              /\ UNCHANGED exitCode
         ELSE /\ ErrorExit("desktop_write_failed")
              /\ SetCall("result", "write_failed")
              /\ UNCHANGED configFile
    /\ UNCHANGED <<configDir, backups, build, claudeInstalled, registry, envs, clock, tool,
                   config, claudeConfig, verifier, node, runs>>

\* configureClaudeCodeCLI, lines 226-237: claude mcp remove notion-mcp -s user
CliRemove ==
    /\ tool = "install" /\ pc = "cli_remove"
    /\ \E removed \in BOOLEAN :
         /\ removed => (claudeInstalled /\ ServerName \in registry)
         /\ registry' = IF removed THEN registry \ {ServerName} ELSE registry
    /\ pc' = "cli_add"
    /\ elapsed' = TRUE
    /\ UNCHANGED <<files, build, claudeInstalled, envs, now, tool, exitCode, config,
                   claudeConfig, verifier, status, node, runs, calls>>

\* this.config.verbose: the subprocess inherits the terminal (stdio 'inherit'),
\* so the message of the error execSync throws holds no text of its stderr
Verbose(cfg) == Truthy(GetProp(cfg, "verbose"))

\* CliAdd with a failure of the add command reported through this.error, which
\* ends the run
CliAddFatal ==
    /\ tool = "install" /\ pc = "cli_add"
    /\ \E answer \in {"added", "already exists", "fail"} :
         /\ answer = "added" => (claudeInstalled /\ ServerName \notin registry)
         /\ answer = "already exists" =>
              (claudeInstalled /\ ServerName \in registry /\ ~Verbose(config))
         /\ registry' = IF answer = "added" THEN registry \cup {ServerName} ELSE registry
         /\ CASE answer = "added" -> status' = "cli_ok" /\ pc' = "complete" /\ UNCHANGED exitCode
              [] answer = "already exists" ->
                   status' = "cli_already" /\ pc' = "complete" /\ UNCHANGED exitCode
              [] OTHER -> ErrorExit("cli_manual_step")
    /\ elapsed' = TRUE
    /\ UNCHANGED <<files, build, claudeInstalled, envs, now, tool, config,
                   claudeConfig, verifier, node, runs, calls>>

\* configureClaudeCodeCLI, lines 239-263: claude mcp add notion-mcp ...
\*   "added":          the command exits with 0
\*   "already exists": it fails and error.message holds 'already exists'
\*   "fail":           it fails with any other message (also when there is no
\*                     claude command)
CliAdd ==
    /\ tool = "install" /\ pc = "cli_add"
    /\ \E answer \in {"added", "already exists", "fail"} :
         /\ answer = "added" => (claudeInstalled /\ ServerName \notin registry)
         /\ answer = "already exists" =>
              (claudeInstalled /\ ServerName \in registry /\ ~Verbose(config))
         /\ registry' = IF answer = "added" THEN registry \cup {ServerName} ELSE registry
         /\ status' = CASE answer = "added" -> "cli_ok"
                        [] answer = "already exists" -> "cli_already"
                        [] OTHER -> "cli_manual_step"
    /\ pc' = "complete"
    /\ elapsed' = TRUE
    /\ UNCHANGED <<files, build, claudeInstalled, envs, now, tool, exitCode, config,
                   claudeConfig, verifier, node, runs, calls>>

\* install, lines 285-297: the completion messages; the process then ends
Complete ==
    /\ tool = "install" /\ pc = "complete"
    /\ status' = "install_ok"
    /\ pc' = "done"
    /\ exitCode' = 0
    /\ UNCHANGED <<world, envs, clock, tool, config, claudeConfig, verifier, node, runs, calls>>

(***************************************************************************)
(* Verifier                                                                *)
(***************************************************************************)
\* `node scripts/verify.js`: a new process; errors = [], warnings = []
StartVerify == Fresh("verify", "v_deps") /\ elapsed' = TRUE

\* checkSystemDependencies of the verifier: the number of this.error calls
VerifierDepsErrors(nodeRun, npmOk) ==
    (IF ~nodeRun.ok \/ BelowMinimum(Trim(nodeRun.out)) THEN 1 ELSE 0)
    + (IF npmOk THEN 0 ELSE 1)

\* VCheckSystemDependencies with the installer's this.error, which ends the
\* run when node is missing or too old
VCheckSystemDependenciesFatal ==
    /\ tool = "verify" /\ pc = "v_deps"
    /\ \E nodeRun \in NodeOutcomes, npmOk \in BOOLEAN :
         /\ nodeOut' = nodeRun
         /\ loggedVersion' = IF nodeRun.ok THEN Trim(nodeRun.out) ELSE NotLogged
         /\ errors' = errors + VerifierDepsErrors(nodeRun, npmOk)
         /\ IF ~nodeRun.ok \/ BelowMinimum(Trim(nodeRun.out))
            THEN ErrorExit("node_missing")
            ELSE /\ status' = IF npmOk THEN "npm_version" ELSE "npm_missing"
                 /\ pc' = "v_build"
                 /\ UNCHANGED exitCode
    /\ elapsed' = TRUE
    /\ UNCHANGED <<world, envs, now, tool, config, claudeConfig, warnings, runs, calls>>

VCheckSystemDependencies ==
    /\ tool = "verify" /\ pc = "v_deps"
    /\ \E nodeRun \in NodeOutcomes, npmOk \in BOOLEAN :
         /\ nodeOut' = nodeRun
         /\ loggedVersion' = IF nodeRun.ok THEN Trim(nodeRun.out) ELSE NotLogged
         /\ errors' = errors + VerifierDepsErrors(nodeRun, npmOk)
         /\ status' = IF npmOk THEN "npm_version" ELSE "npm_missing"
    /\ pc' = "v_build"
    /\ elapsed' = TRUE
    /\ UNCHANGED <<world, envs, now, tool, exitCode, config, claudeConfig, warnings, runs, calls>>

\* VCheckProjectBuild running npm install when node_modules is missing
VCheckProjectBuildInstalls ==
    /\ tool = "verify" /\ pc = "v_build"
    /\ nodeModules' = TRUE
    /\ errors' = errors + (IF cliBinary THEN 0 ELSE 1)
    /\ status' = "cli_functional"
    /\ pc' = "v_desktop"
    /\ elapsed' = TRUE
    /\ UNCHANGED <<files, cliBinary, claudeInstalled, registry, envs, now, tool, exitCode,
                   config, claudeConfig, warnings, node, runs, calls>>

\* checkProjectBuild: node_modules, bin/cli.mjs, then node bin/cli.mjs --help
\* (10 s timeout); it only reads
VCheckProjectBuild ==
    /\ tool = "verify" /\ pc = "v_build"
    /\ IF ~nodeModules
       THEN errors' = errors + 1 /\ status' = "node_modules_missing"
       ELSE IF ~cliBinary
       THEN errors' = errors + 1 /\ status' = "cli_binary_missing"
       ELSE \E answer \in {"usage", "other", "fail", "timeout"} :
              /\ errors' = errors + (IF answer = "usage" THEN 0 ELSE 1)
              /\ status' = IF answer = "usage" THEN "cli_functional" ELSE "cli_test_failed"
    /\ pc' = "v_desktop"
    /\ elapsed' = TRUE
    /\ UNCHANGED <<world, envs, now, tool, exitCode, config, claudeConfig, warnings, node,
                   runs, calls>>

\* args.includes(x): Array.prototype.includes or String.prototype.includes (on
\* a string: x is a substring, here x is the whole string); a TypeError on a
\* value that has no such method
IncludesThrows(v) == v.t \notin {"arr", "str"}
Includes(v, x) ==
    IF v.t = "arr" THEN \E i \in DOMAIN v.a : v.a[i] = Str(x) ELSE v.s = x

\* env.hasOwnProperty(k); a TypeError when env has an own member of that name,
\* which is no function
HasOwnThrows(v) == v.t = "obj" /\ "hasOwnProperty" \in DOMAIN v.o
HasOwn(v, k) ==
    CASE v.t = "obj" -> k \in DOMAIN v.o
      [] v.t = "arr" -> k \in DOMAIN v.x
      [] OTHER -> FALSE

\* checkClaudeDesktopConfig, lines 479-497: the three tests of the entry
EntryCheck(notionConfig) ==
    LET args == GetProp(notionConfig, "args")
        env == GetProp(notionConfig, "env")
        w1 == IF GetProp(notionConfig, "command") # Str("node") THEN 1 ELSE 0
        w2 == IF ~Truthy(args) \/ ~Includes(args, CliBinaryPath) THEN 1 ELSE 0
        w3 == IF ~Truthy(env) \/ ~HasOwn(env, "NOTION_TOKEN") THEN 1 ELSE 0
        failed(w) == [errors |-> 1, warnings |-> w, status |-> "desktop_parse_failed"]
    IN  IF Truthy(args) /\ IncludesThrows(args) THEN failed(w1)
        ELSE IF Truthy(env) /\ HasOwnThrows(env) THEN failed(w1 + w2)
        ELSE [errors |-> 0, warnings |-> w1 + w2 + w3, status |-> "desktop_looks_correct"]

\* checkClaudeDesktopConfig: the messages it records for a file content
DesktopCheck(text) ==
    LET parsed == JsonParse(text)
        servers == GetProp(parsed.val, "mcpServers")
        warned(s) == [errors |-> 0, warnings |-> 1, status |-> s]
    IN  IF text = NoFile THEN warned("desktop_not_found")
        ELSE IF ~parsed.ok \/ GetThrows(parsed.val)
        THEN [errors |-> 1, warnings |-> 0, status |-> "desktop_parse_failed"]
        ELSE IF ~Truthy(servers) THEN warned("desktop_no_servers")
        ELSE IF ~Truthy(GetProp(servers, ServerName)) THEN warned("desktop_no_notion")
        ELSE EntryCheck(GetProp(servers, ServerName))

VCheckClaudeDesktopConfig ==
    /\ tool = "verify" /\ pc = "v_desktop"
    /\ LET found == DesktopCheck(configFile)
       IN  /\ errors' = errors + found.errors
           /\ warnings' = warnings + found.warnings
           /\ status' = found.status
    /\ pc' = "v_cli"
    /\ UNCHANGED <<world, envs, clock, tool, exitCode, config, claudeConfig, node, runs, calls>>

\* checkClaudeCodeCLI: claude --version, then claude mcp list (30 s timeout)
VCheckClaudeCodeCLI ==
    /\ tool = "verify" /\ pc = "v_cli"
    /\ \E answer \in {"no_claude", "connected", "failed", "unknown", "not_listed", "error"} :
         /\ answer # "no_claude" => claudeInstalled
         /\ answer \in {"connected", "failed", "unknown"} => ServerName \in registry
         /\ answer = "not_listed" => ServerName \notin registry
         /\ errors' = errors + (IF answer = "error" THEN 1 ELSE 0)
         /\ warnings' = warnings + (IF answer \in {"connected", "error"} THEN 0 ELSE 1)
         /\ status' = "cli_" \o answer
    /\ pc' = "v_notion"
    /\ elapsed' = TRUE
    /\ UNCHANGED <<world, envs, now, tool, exitCode, config, claudeConfig, node, runs, calls>>

\* token.length > 0
LengthPositive(v) ==
    CASE v.t = "str" -> v.s # ""
      [] v.t = "arr" -> Len(v.a) > 0
      [] OTHER -> FALSE

\* checkNotionIntegration, lines 544-563: the warning for a configured token
\* that has no positive length; an exception is swallowed
TokenWarnings(text) ==
    LET parsed == JsonParse(text)
        entry == GetProp(GetProp(parsed.val, "mcpServers"), ServerName)
        token == GetProp(GetProp(entry, "env"), "NOTION_TOKEN")
    IN  IF text = NoFile \/ ~parsed.ok \/ GetThrows(parsed.val) THEN 0
        ELSE IF Truthy(token) /\ ~LengthPositive(token) THEN 1
        ELSE 0

VCheckNotionIntegration ==
    /\ tool = "verify" /\ pc = "v_notion"
    /\ \E envToken \in BOOLEAN :
         warnings' = warnings + (IF envToken THEN 0 ELSE 1) + TokenWarnings(configFile)
    /\ status' = "notion_instructions"
    /\ pc' = "v_summary"
    /\ UNCHANGED <<world, envs, clock, tool, exitCode, config, claudeConfig, errors, node,
                   runs, calls>>

\* SummaryExitCode failing the run on warnings as well
SummaryExitCodeOnWarnings(nErrors, nWarnings) ==
    IF nErrors > 0 \/ nWarnings > 0 THEN 1 ELSE 0

\* verify, lines 594-620: process.exit(1) when this.errors.length > 0, else the
\* process ends with code 0
SummaryExitCode(nErrors, nWarnings) == IF nErrors > 0 THEN 1 ELSE 0

VSummary ==
    /\ tool = "verify" /\ pc = "v_summary"
    /\ exitCode' = SummaryExitCode(errors, warnings)
    /\ pc' = IF exitCode' = 0 THEN "done" ELSE "exited"
    /\ status' = IF errors = 0 /\ warnings = 0 THEN "all_passed"
                 ELSE IF errors > 0 THEN "fix_errors" ELSE "consider_warnings"
    /\ UNCHANGED <<world, envs, clock, tool, config, claudeConfig, verifier, node, runs, calls>>

(***************************************************************************)
(* execSync without a timeout option blocks until the subprocess ends.     *)
(* The calls that pass a timeout (node bin/cli.mjs --help in both tools,   *)
(* claude mcp list) throw when it expires, which is their failure outcome  *)
(* above; every other call blocks for ever when its subprocess never       *)
(* returns.                                                                *)
(***************************************************************************)
\* the execSync calls without a timeout option, by the step that makes them
UntimedCalls(t, p) ==
    CASE t = "install" /\ p = "deps" -> {"node --version", "npm --version"}
      [] t = "install" /\ p = "build" -> {"npm install", "npm run build"}
      [] t = "install" /\ p = "cli_remove" -> {"claude mcp remove"}
      [] t = "install" /\ p = "cli_add" -> {"claude mcp add"}
      [] t = "verify" /\ p = "v_deps" -> {"node --version", "npm --version"}
      [] t = "verify" /\ p = "v_cli" -> {"claude --version"}
      [] OTHER -> {}

\* a subprocess started by one of these calls never returns: the tool stays
\* blocked inside the step, after what the step did before the call
ExecSyncNeverReturns ==
    /\ \E cmd \in UntimedCalls(tool, pc) :
         /\ status' = cmd
         /\ IF cmd = "npm --version"
            THEN \E nodeRun \in NodeOutcomes :
                   /\ tool = "install" => InstallerDeps(nodeRun, TRUE) = "deps_ok"
                   /\ nodeOut' = nodeRun
                   /\ loggedVersion' = IF nodeRun.ok THEN Trim(nodeRun.out) ELSE NotLogged
                   /\ errors' = IF tool = "verify"
                                THEN errors + VerifierDepsErrors(nodeRun, TRUE)
                                ELSE errors
            ELSE UNCHANGED <<node, errors>>
         /\ nodeModules' = (nodeModules \/ cmd = "npm run build")
    /\ pc' = "hung"
    /\ elapsed' = TRUE
    /\ UNCHANGED <<files, cliBinary, claudeInstalled, registry, envs, now, tool, exitCode,
                   config, claudeConfig, warnings, runs, calls>>

(***************************************************************************)
(* Specifications                                                          *)
(***************************************************************************)
Next ==
    \/ StartInstall
    \/ StartCall
    \/ StartVerify
    \/ LoadConfig
    \/ CheckSystemDependencies
    \/ BuildProject
    \/ TestNotionMcpServer
    \/ DesktopMkdir
    \/ DesktopLoad
    \/ DesktopSet
    \/ DesktopWrite
    \/ CliRemove
    \/ CliAdd
    \/ Complete
    \/ VCheckSystemDependencies
    \/ VCheckProjectBuild
    \/ VCheckClaudeDesktopConfig
    \/ VCheckClaudeCodeCLI
    \/ VCheckNotionIntegration
    \/ VSummary
    \/ ExecSyncNeverReturns

Spec == Init /\ [][Next]_vars

\* the same program on a machine whose file system operations do not fail
InitNoIoFaults == Init /\ ioFaults = FALSE
SpecNoIoFaults == InitNoIoFaults /\ [][Next]_vars

(***************************************************************************)
(* Properties                                                              *)
(***************************************************************************)
\* the record of the most recent configureClaudeDesktop call
Last == calls[Len(calls)]

\* configureClaudeDesktop has just returned, or the tool that called it has
\* gone on or ended, and no later call has started
CallOver == calls # <<>> /\ Last.result # "running"

\* the notion-mcp entry of a JSON document, Undef when it has none
EntryOf(doc) ==
    LET servers == GetProp(doc, "mcpServers")
    IN  IF servers.t = "obj" THEN GetProp(servers, ServerName) ELSE Undef

\* every top-level key of `before` other than mcpServers, and every entry of
\* its mcpServers other than notion-mcp, has the same value in `after`
Preserved(before, after) ==
    before.t = "obj" =>
      /\ after.t = "obj"
      /\ \A k \in (DOMAIN before.o) \ {"mcpServers"} :
           k \in DOMAIN after.o /\ after.o[k] = before.o[k]
      /\ GetProp(before, "mcpServers").t = "obj" =>
           /\ GetProp(after, "mcpServers").t = "obj"
           /\ \A n \in (DOMAIN before.o["mcpServers"].o) \ {ServerName} :
                /\ n \in DOMAIN after.o["mcpServers"].o
                /\ after.o["mcpServers"].o[n] = before.o["mcpServers"].o[n]

\* C1: every configureClaudeDesktop call on a file that holds a parseable
\* document writes a document in which every top-level key other than
\* mcpServers, and every mcpServers entry other than notion-mcp, has the value
\* JSON.parse read for it (as JSON.stringify writes that value).
C1_UnrelatedKeysPreserved ==
    \A i \in 1..Len(calls) :
      (calls[i].result = "success" /\ calls[i].pre.k = "json")
        => Preserved(SerializeValue(ParseValue(calls[i].pre.doc)), calls[i].wrote.doc)

\* C2: after a configureClaudeDesktop call on a file that held parseable JSON
\* (any JSON value), the backup file <path>.backup.<timestamp> exists and its
\* content is the content the file had before the call.
C2_BackupOfEveryParseableFile ==
    (CallOver /\ Last.pre.k = "json")
      => /\ Last.ts \in DOMAIN backups
         /\ backups[Last.ts] = Last.pre

\* C3: the content of the configuration file is replaced only when a backup
\* file holds the content that is replaced, whatever the parse step and the
\* copy step did.
C3_NoWriteWithoutBackup ==
    [][(configFile # NoFile /\ configFile' # configFile)
         => \E t \in DOMAIN backups : backups[t] = configFile]_vars

\* C4: when configureClaudeDesktop has reported success, the document on disk
\* holds exactly the desired entry under mcpServers["notion-mcp"], for every
\* content the file had before.
C4_EntryOnDiskAfterSuccess ==
    (CallOver /\ Last.result = "success" /\ pc \in {"cli_remove", "returned"})
      => /\ configFile.k = "json"
         /\ EntryOf(configFile.doc) = DesiredEntry(config)

\* { mcpServers: { "notion-mcp": entry } } as written to the file
OnlyEntryText(entry) ==
    JsonText("indent2", Obj(Put(NoProps, "mcpServers", Obj(Put(NoProps, ServerName, entry)))))

\* C5: on a file that holds invalid JSON, configureClaudeDesktop throws
\* nothing and does not end the run as an error, makes no backup file, and
\* what it writes is exactly { mcpServers: { "notion-mcp": desiredEntry } }.
C5_InvalidJsonStartsFresh ==
    (calls # <<>> /\ Last.pre = Garbage)
      => /\ Last.result \in {"running", "success"}
         /\ backups = Last.bk
         /\ Last.ts = -1
         /\ pc = "desktop_write" => claudeConfig = ParseValue(OnlyEntryText(DesiredEntry(config)).doc)
         /\ (Last.result = "success" /\ pc \in {"cli_remove", "returned"})
              => configFile = OnlyEntryText(DesiredEntry(config))

\* a call on invalid JSON has returned reporting success
C5_Witness ==
    /\ calls # <<>> /\ Last.pre = Garbage /\ Last.result = "success"
    /\ status = "desktop_updated"

\* C6: two successive configureClaudeDesktop calls with the same desired entry
\* on a file that held an object document, no file operation failing, leave
\* the same notion-mcp entry and two distinct backup files, the first holding
\* the content before the first call and the second the content the first
\* call wrote.
C6_TwoCallsTwoBackups ==
    (/\ Len(calls) = 2
     /\ ~ioFaults
     /\ calls[1].result = "success" /\ calls[2].result = "success"
     /\ calls[1].pre.k = "json" /\ calls[1].pre.doc.t = "obj")
      => /\ EntryOf(calls[2].wrote.doc) = EntryOf(calls[1].wrote.doc)
         /\ calls[1].ts \in DOMAIN backups /\ calls[2].ts \in DOMAIN backups
         /\ calls[1].ts # calls[2].ts
         /\ backups[calls[1].ts] = calls[1].pre
         /\ backups[calls[2].ts] = calls[1].wrote

\* C7: starting with no configuration file (and possibly no directory), after
\* one configureClaudeDesktop call the directory and the file exist, the file
\* is valid JSON, the notion-mcp entry has command "node" and args holding the
\* path of bin/cli.mjs, and there is no backup file.
C7_FirstInstallCreatesFile ==
    (Len(calls) = 1 /\ calls[1].pre = NoFile /\ calls[1].result # "running")
      => /\ configDir
         /\ configFile.k = "json"
         /\ GetProp(EntryOf(configFile.doc), "command") = Str("node")
         /\ LET args == GetProp(EntryOf(configFile.doc), "args")
            IN  args.t = "arr" /\ \E i \in DOMAIN args.a : args.a[i] = Str(CliBinaryPath)
         /\ backups = NoProps

\* the call created the directory and the file
C7_Witness ==
    /\ Len(calls) = 1 /\ calls[1].pre = NoFile /\ ~calls[1].dir
    /\ calls[1].result = "success" /\ configFile.k = "json"

\* the leading major number of a version text is a number >= 16
MajorAtLeastMinimum(version) ==
    LET v == VersionNum(version) IN ~v.nan /\ v.n >= MinNodeMajor

\* C8: for every version text `node --version` reports whose major number is
\* not a number >= 16, the installer ends the run with exit code 1 in the
\* dependency check and the verifier records an error; the text is reported
\* as it was detected.
C8_OldNodeRejected ==
    (nodeOut.ok /\ ~MajorAtLeastMinimum(Trim(nodeOut.out)))
      => /\ loggedVersion = Trim(nodeOut.out)
         /\ tool = "install" => (pc = "exited" /\ exitCode = 1 /\ status = "node_too_old")
         /\ tool = "verify" => errors >= 1

\* C9: a verify run exits non-zero if and only if a check recorded an error;
\* with warnings only it ends with exit code 0.
C9_VerifyExitCode ==
    (tool = "verify" /\ pc \in {"done", "exited"})
      => /\ exitCode \in {0, 1}
         /\ exitCode # 0 <=> errors > 0
         /\ (errors = 0 /\ warnings > 0) => exitCode = 0

\* a verify run that recorded several warnings and no error has ended
C9_Witness ==
    tool = "verify" /\ pc = "done" /\ errors = 0 /\ warnings >= 2 /\ exitCode = 0

\* C10: no step of a verify run changes the configuration directory and file,
\* the backups, the build artifacts or the CLI registry.
C10_VerifierReadOnly ==
    [][tool' = "verify" => UNCHANGED <<configDir, configFile, backups, nodeModules,
                                       cliBinary, registry>>]_vars

\* a verify run has ended on a machine where an install run completed
C10_Witness ==
    /\ tool = "verify" /\ pc \in {"done", "exited"}
    /\ configFile # NoFile /\ cliBinary /\ registry # {}

\* C11 as stated: a desktop configuration file that holds malformed JSON makes
\* neither the installer nor the verifier record an error or end the run: the
\* step that reads it adds no error and does not exit.
C11_ParseFailureNeverAnError ==
    [][(configFile = Garbage /\ pc \in {"desktop_load", "v_desktop"})
         => (errors' = errors /\ exitCode' = exitCode /\ pc' # "exited")]_vars

\* C11 as amended: on malformed JSON the installer goes on with the fresh
\* { mcpServers: {} } document, recording no error and not ending the run; the
\* verifier's checkClaudeDesktopConfig records one error and no warning.
C11_InstallerParseFailureIsWarning ==
    [][/\ (configFile = Garbage /\ pc = "desktop_load")
            => /\ pc' = "desktop_set" /\ exitCode' = exitCode
               /\ claudeConfig' = FreshConfig
               /\ errors' = errors
       /\ (configFile = Garbage /\ pc = "v_desktop")
            => /\ pc' = "v_cli" /\ exitCode' = exitCode
               /\ errors' = errors + 1 /\ warnings' = warnings]_vars

\* an install run that found malformed JSON in the file has completed
C11_Witness ==
    /\ tool = "install" /\ pc = "done" /\ exitCode = 0
    /\ calls # <<>> /\ Last.pre = Garbage /\ Last.result = "success"

\* the positions of an install run, in the order install() goes through them
InstallOrder ==
    <<"loadConfig", "deps", "build", "test", "desktop_mkdir", "desktop_load",
      "desktop_set", "desktop_write", "cli_remove", "cli_add", "complete", "done">>

\* the position that follows p in the sequence order
StepAfter(order, p) ==
    order[(CHOOSE i \in 1..(Len(order) - 1) : order[i] = p) + 1]

\* a step of the running tool (not the start of a run) that leaves position p
Leaves(t, p) == tool = t /\ pc = p /\ pc' # p /\ runs' = runs

\* the step ends the run with exit code 1
EndsRun == pc' = "exited" /\ exitCode' = 1

\* the call the step made has not returned (the run neither goes on nor ends)
Blocks == pc' = "hung"

\* C12: an install run goes through load-config, dependency check, build,
\* smoke test, configure in this order.  The dependency check hands over to
\* the build only when node and npm answered and the major version is not a
\* number below 16, and otherwise ends the run with exit code 1; the build
\* hands over to the smoke test only when npm install and npm run build
\* succeeded and bin/cli.mjs exists, and otherwise ends the run with exit
\* code 1; the smoke test hands over to the configuration only when it
\* succeeded.  The configuration file, its backups and the CLI registry change
\* only in the configuration steps, which are reached only that way.
C12_InstallStepsInOrder ==
    [][/\ \A p \in {InstallOrder[i] : i \in 1..(Len(InstallOrder) - 1)} :
            Leaves("install", p) => (pc' = StepAfter(InstallOrder, p) \/ EndsRun \/ Blocks)
       /\ (Leaves("install", "deps") /\ ~Blocks)
            => IF nodeOut'.ok /\ ~BelowMinimum(Trim(nodeOut'.out)) /\ status' # "npm_missing"
               THEN pc' = "build" /\ status' = "deps_ok"
               ELSE EndsRun
       /\ (Leaves("install", "build") /\ ~Blocks)
            => IF status' = "build_ok"
               THEN pc' = "test" /\ nodeModules' /\ cliBinary'
               ELSE EndsRun /\ status' = "build_failed"
       /\ (Leaves("install", "test") /\ pc' = "desktop_mkdir") => status' = "test_ok"
       /\ (tool = "install" /\ <<configDir, configFile, backups, registry>>'
                                 # <<configDir, configFile, backups, registry>>)
            => /\ pc \in {"desktop_mkdir", "desktop_load", "desktop_write",
                          "cli_remove", "cli_add"}
               /\ nodeModules /\ cliBinary
               /\ nodeOut.ok /\ ~BelowMinimum(Trim(nodeOut.out))]_vars

\* an install run has gone through every step, has written the configuration
\* file and has added the server to the registry
C12_Witness ==
    /\ tool = "install" /\ pc = "done" /\ exitCode = 0
    /\ Last.result = "success" /\ configFile = Last.wrote
    /\ ServerName \in registry

\* the add command of the step did not add the server
AddFailed == pc = "cli_add" /\ registry' = registry

\* the remove step is followed by the add step, and the add step by the
\* completion step, whatever the commands answered; neither step ends the run
\* or touches the configuration file, and the completion step ends the run
\* with exit code 0
CliStepsNotFatal ==
    /\ (Leaves("install", "cli_remove") /\ ~Blocks) => pc' = "cli_add"
    /\ (Leaves("install", "cli_add") /\ ~Blocks) => pc' = "complete"
    /\ Leaves("install", "complete") => (pc' = "done" /\ exitCode' = 0)
    /\ (tool = "install" /\ pc \in {"cli_remove", "cli_add", "complete"})
         => /\ UNCHANGED <<configDir, configFile, backups>>
            /\ configFile = Last.wrote
            /\ pc # "complete" => exitCode' = exitCode

\* C13 as stated: remove is issued before add, a failure of remove does not
\* stop add, and every failure of add (also when there is no claude command)
\* is reported with the manual-step instruction and is not fatal: the run
\* reaches its completion step and exits with code 0, the desktop
\* configuration file left as written.
C13_AddFailureReportedAsManualStep ==
    [][/\ CliStepsNotFatal
       /\ (Leaves("install", "cli_add") /\ ~Blocks /\ AddFailed)
            => status' = "cli_manual_step"]_vars

\* C13 as amended: as stated, except that a failure of add whose error message
\* holds 'already exists' is reported as a success ("already configured")
\* with no manual-step instruction; this takes a registered server and a
\* piped stderr (verbose off).  Every other failure of add, and every add
\* when there is no claude command, is reported with the manual-step
\* instruction.
C13_AddFailureNotFatal ==
    [][/\ CliStepsNotFatal
       /\ (Leaves("install", "cli_add") /\ ~Blocks /\ AddFailed)
            => /\ status' \in {"cli_manual_step", "cli_already"}
               /\ status' = "cli_already"
                    => (claudeInstalled /\ ServerName \in registry /\ ~Verbose(config))
       /\ (Leaves("install", "cli_add") /\ ~Blocks /\ ~AddFailed) => status' = "cli_ok"]_vars

\* an install run on a machine without the claude command has completed
C13_Witness ==
    /\ tool = "install" /\ pc = "done" /\ exitCode = 0
    /\ ~claudeInstalled /\ ServerName \notin registry
    /\ Last.result = "success" /\ configFile = Last.wrote

\* the positions of a verify run, in the order verify() goes through them
VerifyOrder == <<"v_deps", "v_build", "v_desktop", "v_cli", "v_notion", "v_summary">>

\* every check of a verify run hands over to the next one, and the last one
\* to the summary, without ending the run, whatever it found
VerifierReachesSummary ==
    \A p \in {VerifyOrder[i] : i \in 1..(Len(VerifyOrder) - 1)} :
      (Leaves("verify", p) /\ ~Blocks)
        => (pc' = StepAfter(VerifyOrder, p) /\ exitCode' = exitCode)

\* C14 as stated: no failure of an external process stops a tool before its
\* summary step, except in the dependency check and the build of an install
\* run: every check of a verify run is followed by the next one up to the
\* summary, and the smoke test and the registry remove and add steps of an
\* install run never end the run.
C14_OnlyDepsAndBuildStopARun ==
    [][/\ VerifierReachesSummary
       /\ (tool = "install" /\ pc \in {"test", "cli_remove", "cli_add"})
            => pc' # "exited"]_vars

\* C14 as amended: the smoke test of an install run is a third exception: the
\* run goes on to the configuration when the binary printed its usage text,
\* and ends with exit code 1 on any other outcome (failure, unexpected output,
\* expired timeout).  The registry remove and add steps never end the run, and
\* every check of a verify run is followed by the next one up to the summary.
C14_SmokeTestStopsARunToo ==
    [][/\ VerifierReachesSummary
       /\ (tool = "install" /\ pc \in {"cli_remove", "cli_add"}) => pc' # "exited"
       /\ Leaves("install", "test")
            => \/ pc' = "desktop_mkdir" /\ status' = "test_ok" /\ exitCode' = exitCode
               \/ EndsRun /\ status' = "test_failed"]_vars

\* a verify run in which node was missing and further checks recorded errors
\* has reached its summary
C14_Witness ==
    /\ tool = "verify" /\ pc = "exited" /\ status = "fix_errors"
    /\ ~nodeOut.ok /\ errors >= 3

\* C15: every external process invocation of the installer and of the verifier
\* is subject to a timeout, so a subprocess that never returns makes the step
\* fail and the run go on or end: no run is ever blocked inside a call.
C15_NoRunBlocksInACall == pc # "hung"

\* C16: when configureClaudeDesktop has reported success (from any prior file
\* content and with any token), the verifier's checkClaudeDesktopConfig, run
\* on the file the call wrote, records no error and no warning.
C16_VerifierAcceptsInstallerOutput ==
    [][(/\ tool = "verify" /\ pc = "v_desktop"
        /\ calls # <<>> /\ Last.result = "success" /\ configFile = Last.wrote)
         => (errors' = errors /\ warnings' = warnings)]_vars

\* the notion-mcp entry has command "node", args that hold the path of
\* bin/cli.mjs and an env with a NOTION_TOKEN key
EntryAsInstalled(entry) ==
    LET args == GetProp(entry, "args")
        env == GetProp(entry, "env")
    IN  /\ GetProp(entry, "command") = Str("node")
        /\ args.t = "arr" /\ \E i \in DOMAIN args.a : args.a[i] = Str(CliBinaryPath)
        /\ env.t = "obj" /\ "NOTION_TOKEN" \in DOMAIN env.o

\* C17: checkClaudeDesktopConfig reports "Claude Desktop configuration looks
\* correct" only when it recorded no warning and no error, that is only when
\* the notion-mcp entry of the file has command "node", args that hold the
\* path of bin/cli.mjs and an env with a NOTION_TOKEN key.
C17_LooksCorrectOnlyWithoutWarnings ==
    [][(tool = "verify" /\ pc = "v_desktop" /\ status' = "desktop_looks_correct")
         => /\ errors' = errors /\ warnings' = warnings
            /\ configFile.k = "json"
            /\ EntryAsInstalled(EntryOf(ParseValue(configFile.doc)))]_vars

====
